---- MODULE Spec2Model ----
(***************************************************************************)
(* A model of boto3/s3/transfer.py: S3Transfer (upload_file,               *)
(* download_file), MultipartUploader, MultipartDownloaded, ReadFileChunk,  *)
(* StreamReaderProgress and ThreadSafeWriter.                              *)
(*                                                                         *)
(* The store client, the local file system and the thread pool             *)
(* (concurrent.futures.ThreadPoolExecutor) are the environment: the store  *)
(* answers or fails each call, the pool runs at most max_workers tasks at  *)
(* a time, taking them in submission order, and the threads interleave at  *)
(* every call on a shared object.                                          *)
(*                                                                         *)
(* Byte k of the local file (upload) or of the object (download) has the   *)
(* value k + 1; 0 is a byte nobody wrote (a hole of the output file).       *)
(***************************************************************************)
EXTENDS Integers, Sequences, FiniteSets, TLC

\* ---------------------------------------------------------------- bounds

\* The largest file / object size of a transfer.
MaxSize == 3
\* The largest multipart_chunksize.
MaxChunk == 2
\* The multipart_threshold of a configuration that has one.
MaxThreshold == 2
\* The largest max_concurrency.
MaxWorkers == 2
\* The largest amount the store client asks of an upload body in one read.
MaxReadAmount == 2

\* The greatest sum of the amounts given to the callback of a reader called
\* on its own.
MaxProgress == 6

\* The upload ids the store hands out.
UploadIds == {"u1", "u2"}

\* 1024 * 16 and 8192 in the source, scaled to the sizes of the model.
buffer_size == 2
get_object_buffer == 2

\* end_range = '': the open end of the last range.
OpenEnd == -1

None == "None"

\* --------------------------------------------------------------- helpers

Min(a, b) == IF a < b THEN a ELSE b

Max(a, b) == IF a > b THEN a ELSE b

\* int(math.ceil(size / float(part_size))), part_size # 0.
NumParts(size, part_size) ==
  IF part_size > 0
    THEN (size + part_size - 1) \div part_size
    ELSE -(size \div (-part_size))

\* range(1, num_parts + 1)
UploadRange(n) == 1..n

\* range(num_parts)
DownloadRange(n) == 0..(n - 1)

\* ---------------------------------------------------------- ReadFileChunk

\* The size of the chunk not clamped to the end of the file.
CalculateFileSizeUnclamped(requested_size, start_byte, actual_file_size) ==
  requested_size

\* ReadFileChunk._calculate_file_size
CalculateFileSize(requested_size, start_byte, actual_file_size) ==
  Min(actual_file_size - start_byte, requested_size)

\* fileobj.read(n) of a file of file_size bytes whose cursor is at fpos: the
\* number of bytes returned. A negative n reads to the end of the file.
FileReadLen(fpos, n, file_size) ==
  IF n < 0 THEN Max(file_size - fpos, 0)
  ELSE Min(n, Max(file_size - fpos, 0))

\* ReadFileChunk.__init__ (from_filename: a file object of its own)
NewChunk(start_byte, chunk_size, full_file_size) ==
  [start_byte |-> start_byte,
   size |-> CalculateFileSize(chunk_size, start_byte, full_file_size),
   amount_read |-> 0,
   fpos |-> start_byte,
   file_size |-> full_file_size,
   open |-> TRUE]

NoChunk ==
  [start_byte |-> 0, size |-> 0, amount_read |-> 0, fpos |-> 0,
   file_size |-> 0, open |-> FALSE]

\* ReadFileChunk.read: amount_to_read. The argument is <<n>> for read(n) and
\* <<>> for read(), amount = None: the rest of the chunk.
AmountToRead(c, amount) ==
  IF amount = <<>> THEN c.size - c.amount_read
  ELSE Min(c.size - c.amount_read, amount[1])

\* ReadFileChunk.read: len(data)
ChunkReadLen(c, amount) ==
  FileReadLen(c.fpos, AmountToRead(c, amount), c.file_size)

\* ReadFileChunk.read: the amount given to the callback, len(data)
ChunkCallbackAmount(c, amount) == ChunkReadLen(c, amount)

\* ReadFileChunk.read: the chunk after the read
ChunkAfterRead(c, amount) ==
  [c EXCEPT !.amount_read = @ + ChunkReadLen(c, amount),
            !.fpos = @ + ChunkReadLen(c, amount)]

\* ReadFileChunk.seek
ChunkAfterSeek(c, where) ==
  [c EXCEPT !.fpos = c.start_byte + where, !.amount_read = where]

\* The chunk view left open.
ChunkLeftOpen(c) == c

\* ReadFileChunk.close / __exit__
ChunkAfterClose(c) == [c EXCEPT !.open = FALSE]

\* -------------------------------------------------------- the store's data

\* The bytes [from, from + len) of the file or object.
Bytes(from, len) == [k \in 1..len |-> from + k]

\* The bytes a get_object with Range = r answers for an object of object_size
\* bytes: the stream's first offset and the offset after its last.
RangeFirst(r) == r.start

RangeEnd(r, object_size) ==
  IF r.end = OpenEnd THEN Max(object_size, r.start)
  ELSE Max(Min(r.end + 1, object_size), r.start)

\* The ETag the store gives part part_number of session id: opaque to the
\* uploader, and no two parts of a store have the same.
StoreETag(id, part_number) == <<id, part_number>>

\* ------------------------------------------------------------- the state

VARIABLES
  op,          \* "upload" or "download": the call made on the S3Transfer
  size,        \* the local file's size (upload), the object's length (download)
  config,      \* the TransferConfig
  pc,          \* where the calling thread is
  num_parts,   \* num_parts of the coordinator
  upload_id,   \* upload_id of MultipartUploader.upload_file
  parts,       \* parts of MultipartUploader.upload_file
  next_result, \* the next task whose result executor.map's iterator yields
  task,        \* the tasks given to the executor: their state and locals
  body,        \* the body of the direct path: a chunk view or a response stream
  session,     \* the store's multipart session: "none", "open", "completed"
  storeEtag,   \* the ETag the store returned for each part number
  calls,       \* how many calls of each kind the store has received, and
               \* how many times the output file has been closed
  partCalls,   \* the upload_part calls the store has received
  rangeCalls,  \* the Range of each ranged get_object call the store has received
  completeArg, \* the arguments of the complete_multipart_upload calls
  outOfOrder,  \* a part upload has returned before one of a smaller number
  progress,    \* the sum of the amounts given to the progress callback
  fileState,   \* the local output file: "unopened", "open", "closed"
  fileData,    \* the local output file's bytes
  filePos,     \* the cursor of the one output file handle
  lock,        \* ThreadSafeWriter._lock of each writer: <<holder>>, <<>> when free
  lastRead     \* the last read of a reader called on its own: what it returned
               \* and what it gave the callback

vars ==
  <<op, size, config, pc, num_parts, upload_id, parts, next_result, task, body,
    session, storeEtag, calls, partCalls, rangeCalls, completeArg, outOfOrder,
    progress, fileState, fileData, filePos, lock, lastRead>>

configVars == <<op, size, config>>

uploadVars ==
  <<upload_id, parts, session, storeEtag, partCalls, completeArg, outOfOrder>>

fileVars == <<fileState, fileData, filePos, lock>>

NoRead ==
  [done |-> FALSE, from |-> 0, len |-> 0, amount |-> 0, left |-> 0,
   called |-> FALSE, arg |-> 0]

\* TransferConfig.__init__
TransferConfig(multipart_threshold, max_concurrency, multipart_chunksize) ==
  [multipart_threshold |-> multipart_threshold,
   max_concurrency |-> max_concurrency,
   multipart_chunksize |-> multipart_chunksize]

Sizes == 0..MaxSize

Thresholds == {0, MaxThreshold}

ChunkSizes == (-1)..MaxChunk

Configs ==
  {TransferConfig(t, w, c) : t \in Thresholds, w \in 1..MaxWorkers,
                             c \in ChunkSizes}

NoCalls ==
  [create |-> 0, put |-> 0, complete |-> 0, abort |-> 0, head |-> 0, get |-> 0,
   close |-> 0]

NoResult == [ETag |-> <<>>, PartNumber |-> 0]

NoStream == [spos |-> 0, send |-> 0]

\* S3Transfer.__init__ and the call about to be made
Init ==
  /\ op \in {"upload", "download"}
  /\ size \in Sizes
  /\ config \in Configs
  /\ pc = "start"
  /\ num_parts = 0
  /\ upload_id = None
  /\ parts = <<>>
  /\ next_result = 0
  /\ task = <<>>
  /\ body = IF op = "upload" THEN NoChunk ELSE NoStream
  /\ session = "none"
  /\ storeEtag = <<>>
  /\ calls = NoCalls
  /\ partCalls = {}
  /\ rangeCalls = {}
  /\ completeArg = <<>>
  /\ outOfOrder = FALSE
  /\ progress = 0
  /\ fileState = "unopened"
  /\ fileData = <<>>
  /\ filePos = 0
  /\ lock = <<>>
  /\ lastRead = NoRead

\* ----------------------------------------------------- the thread pool

TaskIds == DOMAIN task

Running == {t \in TaskIds : task[t].st = "running"}

Pending == {t \in TaskIds : task[t].st = "pending"}

\* A pool that starts a thread for every task.
WorkerFreeAlways == TRUE

\* ThreadPoolExecutor(max_workers): a thread is free to take a task
WorkerFree == Cardinality(Running) < config.max_concurrency

\* The work queue is first in, first out.
NextInQueue(t) == t \in Pending /\ \A u \in Pending : t <= u

\* executor.map's iterator, the result of a failed task raising out of it:
\* its finally clause cancels the futures that have not started.
CancelPending ==
  [t \in TaskIds |->
     IF task[t].st = "pending" THEN [task[t] EXCEPT !.st = "cancelled"]
     ELSE task[t]]

\* ------------------------------------------------------ S3Transfer.upload_file

\* The size check with > for >=.
UseMultipartStrict(sz, cfg) == sz > cfg.multipart_threshold

\* S3Transfer.upload_file: the size check
UseMultipart(sz, cfg) == sz >= cfg.multipart_threshold

UploadFile ==
  /\ pc = "start"
  /\ op = "upload"
  /\ pc' = IF UseMultipart(size, config) THEN "create" ELSE "put"
  /\ UNCHANGED <<configVars, lastRead,
                 num_parts, next_result, task, body, uploadVars,
                 calls, rangeCalls, progress, fileVars>>

\* S3Transfer._put_object: the chunk view of the whole file is opened and
\* put_object is called with it.
PutObjectCall ==
  /\ pc = "put"
  /\ body' = NewChunk(0, size, size)
  /\ calls' = [calls EXCEPT !.put = @ + 1]
  /\ pc' = "put_call"
  /\ UNCHANGED <<configVars, lastRead,
                 num_parts, next_result, task, uploadVars,
                 rangeCalls, progress, fileVars>>

\* The store client reads the body of put_object: ReadFileChunk.read.
PutObjectRead(amount) ==
  /\ pc = "put_call"
  /\ body.amount_read < body.size
  /\ progress' = progress + ChunkCallbackAmount(body, <<amount>>)
  /\ body' = ChunkAfterRead(body, <<amount>>)
  /\ UNCHANGED <<configVars, lastRead,
                 pc, num_parts, next_result, task, uploadVars,
                 calls, rangeCalls, fileVars>>

\* put_object returns, the body read to its end; the with statement closes it.
PutObjectReturn ==
  /\ pc = "put_call"
  /\ body.amount_read = body.size
  /\ body' = ChunkAfterClose(body)
  /\ pc' = "returned"
  /\ UNCHANGED <<configVars, lastRead,
                 num_parts, next_result, task, uploadVars, calls,
                 rangeCalls, progress, fileVars>>

\* put_object raises; the with statement closes the body.
PutObjectRaise ==
  /\ pc = "put_call"
  /\ body' = ChunkAfterClose(body)
  /\ pc' = "raised"
  /\ UNCHANGED <<configVars, lastRead,
                 num_parts, next_result, task, uploadVars, calls,
                 rangeCalls, progress, fileVars>>

\* ------------------------------------------------ MultipartUploader.upload_file

UploadTask == [st |-> "pending", chunk |-> NoChunk, result |-> NoResult]

\* executor.map(upload_partial, range(1, num_parts + 1)): every task submitted
SubmitUploads(n) == [t \in UploadRange(n) |-> UploadTask]

\* create_multipart_upload returns an upload id; num_parts is computed (a
\* multipart_chunksize of 0 raises ZeroDivisionError) and the parts are
\* given to the executor.
CreateMultipartUpload ==
  /\ pc = "create"
  /\ calls' = [calls EXCEPT !.create = @ + 1]
  /\ session' = "open"
  /\ \E id \in UploadIds : upload_id' = id
  /\ IF config.multipart_chunksize = 0
       THEN /\ pc' = "raised"
            /\ UNCHANGED <<num_parts, task, next_result>>
       ELSE /\ num_parts' = NumParts(size, config.multipart_chunksize)
            /\ task' = SubmitUploads(num_parts')
            /\ next_result' = 1
            /\ pc' = "collect"
  /\ UNCHANGED <<configVars, lastRead,
                 parts, body, storeEtag, partCalls, completeArg,
                 outOfOrder, rangeCalls, progress, fileVars>>

\* create_multipart_upload raises.
CreateMultipartUploadRaise ==
  /\ pc = "create"
  /\ calls' = [calls EXCEPT !.create = @ + 1]
  /\ pc' = "raised"
  /\ UNCHANGED <<configVars, lastRead,
                 num_parts, next_result, task, body, uploadVars,
                 rangeCalls, progress, fileVars>>

\* _upload_one_part: the chunk view's start_byte
PartStart(part_size, part_number) == part_size * (part_number - 1)

\* upload_part called without the upload id of the session.
UploadPartArgsNoId(id, part_number, chunk) ==
  [UploadId |-> None, PartNumber |-> part_number,
   start |-> chunk.start_byte, len |-> chunk.size]

\* _upload_one_part: the arguments of upload_part
UploadPartArgs(id, part_number, chunk) ==
  [UploadId |-> id, PartNumber |-> part_number,
   start |-> chunk.start_byte, len |-> chunk.size]

\* _upload_one_part: its return value
PartResult(etag, part_number) == [ETag |-> etag, PartNumber |-> part_number]

\* A pool thread takes part_number off the queue: _upload_one_part opens its
\* chunk view and calls upload_part.
UploadPartCall(t) ==
  /\ op = "upload"
  /\ pc \in {"collect", "unwind"}
  /\ NextInQueue(t)
  /\ WorkerFree
  /\ LET chunk == NewChunk(PartStart(config.multipart_chunksize, t),
                           config.multipart_chunksize, size)
     IN /\ task' = [task EXCEPT ![t].st = "running", ![t].chunk = chunk]
        /\ partCalls' = partCalls \cup {UploadPartArgs(upload_id, t, chunk)}
  /\ UNCHANGED <<configVars, lastRead,
                 pc, num_parts, next_result, body, upload_id,
                 parts, session, storeEtag, completeArg, outOfOrder, calls,
                 rangeCalls, progress, fileVars>>

\* The store client reads the body of upload_part: ReadFileChunk.read.
UploadPartRead(t, amount) ==
  /\ op = "upload"
  /\ t \in Running
  /\ task[t].chunk.amount_read < task[t].chunk.size
  /\ progress' = progress + ChunkCallbackAmount(task[t].chunk, <<amount>>)
  /\ task' = [task EXCEPT ![t].chunk = ChunkAfterRead(@, <<amount>>)]
  /\ UNCHANGED <<configVars, lastRead,
                 pc, num_parts, next_result, body, uploadVars,
                 calls, rangeCalls, fileVars>>

\* upload_part returns an ETag, the body read to its end; the with statement
\* closes the chunk view and the task ends with its result.
UploadPartReturn(t) ==
  /\ op = "upload"
  /\ t \in Running
  /\ task[t].chunk.amount_read = task[t].chunk.size
  /\ LET etag == StoreETag(upload_id, t)
     IN /\ storeEtag' = (t :> etag) @@ storeEtag
        /\ task' = [task EXCEPT ![t].st = "done",
                                ![t].chunk = ChunkAfterClose(@),
                                ![t].result = PartResult(etag, t)]
  /\ outOfOrder' =
       (outOfOrder \/ \E u \in TaskIds : u < t /\ task[u].st # "done")
  /\ UNCHANGED <<configVars, lastRead,
                 pc, num_parts, next_result, body, upload_id,
                 parts, session, partCalls, completeArg, calls, rangeCalls,
                 progress, fileVars>>

\* upload_part raises; the with statement closes the chunk view and the task
\* ends with the exception.
UploadPartRaise(t) ==
  /\ op = "upload"
  /\ t \in Running
  /\ task' = [task EXCEPT ![t].st = "failed", ![t].chunk = ChunkAfterClose(@)]
  /\ UNCHANGED <<configVars, lastRead,
                 pc, num_parts, next_result, body, uploadVars,
                 calls, rangeCalls, progress, fileVars>>

\* for part in executor.map(...): parts.append(part), for a task that ended
\* with a result.
CollectPart ==
  /\ op = "upload"
  /\ pc = "collect"
  /\ next_result \in TaskIds
  /\ task[next_result].st = "done"
  /\ parts' = Append(parts, task[next_result].result)
  /\ next_result' = next_result + 1
  /\ UNCHANGED <<configVars, lastRead,
                 pc, num_parts, task, body, upload_id, session,
                 storeEtag, partCalls, completeArg, outOfOrder, calls,
                 rangeCalls, progress, fileVars>>

\* The exception of a failed task swallowed: the loop goes on to the next.
CollectSkipFailed ==
  /\ pc = "collect"
  /\ next_result \in TaskIds
  /\ task[next_result].st = "failed"
  /\ next_result' = next_result + 1
  /\ UNCHANGED <<configVars, lastRead,
                 pc, num_parts, task, body, uploadVars, calls,
                 rangeCalls, progress, fileVars>>

\* The iterator raises the exception of a failed task: the futures not yet
\* started are cancelled and the with statement waits for the running ones.
CollectRaise ==
  /\ pc = "collect"
  /\ next_result \in TaskIds
  /\ task[next_result].st = "failed"
  /\ task' = CancelPending
  /\ pc' = "unwind"
  /\ UNCHANGED <<configVars, lastRead,
                 num_parts, next_result, body, uploadVars, calls,
                 rangeCalls, progress, fileVars>>

\* The executor shut down with wait=False.
UploadUnwindNoWait ==
  /\ op = "upload"
  /\ pc = "unwind"
  /\ pc' = "raised"
  /\ UNCHANGED <<configVars, lastRead,
                 num_parts, next_result, task, body, uploadVars,
                 calls, rangeCalls, progress, fileVars>>

\* ThreadPoolExecutor.__exit__: shutdown(wait=True) returns once no task runs
\* and the exception leaves upload_file.
UploadUnwind ==
  /\ op = "upload"
  /\ pc = "unwind"
  /\ Running = {}
  /\ pc' = "raised"
  /\ UNCHANGED <<configVars, lastRead,
                 num_parts, next_result, task, body, uploadVars,
                 calls, rangeCalls, progress, fileVars>>

RECURSIVE InsertByPartNumber(_, _)
\* x placed after the last entry of the sorted s whose PartNumber is <= x's
InsertByPartNumber(s, x) ==
  IF s = <<>> THEN <<x>>
  ELSE IF s[Len(s)].PartNumber <= x.PartNumber THEN Append(s, x)
  ELSE Append(InsertByPartNumber(SubSeq(s, 1, Len(s) - 1), x), s[Len(s)])

\* The sort with reverse=True.
SortDescending(s) ==
  [k \in 1..Len(s) |-> s[Len(s) + 1 - k]]

RECURSIVE SortByPartNumber(_)
\* parts.sort(key=lambda x: x['PartNumber']): a stable sort
SortByPartNumber(s) ==
  IF s = <<>> THEN <<>>
  ELSE InsertByPartNumber(SortByPartNumber(SubSeq(s, 1, Len(s) - 1)), s[Len(s)])

\* complete_multipart_upload's arguments
CompleteArgs(id, ps) == [UploadId |-> id, Parts |-> ps]

\* Every result collected: the parts are sorted and
\* complete_multipart_upload is called, and returns or raises.
CompleteMultipartUpload ==
  /\ op = "upload"
  /\ pc = "collect"
  /\ next_result = num_parts + 1
  /\ parts' = SortByPartNumber(parts)
  /\ calls' = [calls EXCEPT !.complete = @ + 1]
  /\ completeArg' = Append(completeArg, CompleteArgs(upload_id, parts'))
  /\ \/ session' = "completed" /\ pc' = "returned"
     \/ session' = session /\ pc' = "raised"
  /\ UNCHANGED <<configVars, lastRead,
                 num_parts, next_result, task, body, upload_id,
                 storeEtag, partCalls, outOfOrder, rangeCalls, progress,
                 fileVars>>

ReadAmounts == 1..MaxReadAmount

UploadNext ==
  \/ UploadFile
  \/ PutObjectCall
  \/ \E a \in ReadAmounts : PutObjectRead(a)
  \/ PutObjectReturn
  \/ PutObjectRaise
  \/ CreateMultipartUpload
  \/ CreateMultipartUploadRaise
  \/ \E t \in TaskIds : UploadPartCall(t)
  \/ \E t \in TaskIds, a \in ReadAmounts : UploadPartRead(t, a)
  \/ \E t \in TaskIds : UploadPartReturn(t)
  \/ \E t \in TaskIds : UploadPartRaise(t)
  \/ CollectPart
  \/ CollectRaise
  \/ UploadUnwind
  \/ CompleteMultipartUpload

\* ---------------------------------------------------- ThreadSafeWriter

\* write_stream.write(data) with the cursor at pos: the file afterwards.
\* Bytes between the old end of the file and pos are a hole.
WriteAt(data, pos, bytes) ==
  [k \in 1..Max(Len(data), pos + Len(bytes)) |->
     IF k > pos /\ k <= pos + Len(bytes) THEN bytes[k - pos]
     ELSE IF k <= Len(data) THEN data[k]
     ELSE 0]

\* pwrite without its lock.
LockFreeAlways(w) == TRUE

\* with self._lock: the lock of writer w can be taken
LockFree(w) == lock[w] = <<>>

\* ThreadSafeWriter.pwrite, to its seek: task t takes the lock of its writer
\* and moves the cursor of the write stream to the offset.
PwriteSeek(t) ==
  /\ t \in Running
  /\ task[t].stage = "pwrite"
  /\ LockFree(task[t].writer)
  /\ lock' = [lock EXCEPT ![task[t].writer] = <<t>>]
  /\ filePos' = task[t].current_index
  /\ task' = [task EXCEPT ![t].stage = "write"]
  /\ UNCHANGED <<configVars, lastRead,
                 pc, num_parts, next_result, body, uploadVars,
                 calls, rangeCalls, progress, fileState, fileData>>

\* ThreadSafeWriter.pwrite, from its write: the data is written where the
\* cursor is and the lock is released; the caller adds len(chunk) to its
\* current_index.
PwriteWrite(t) ==
  /\ t \in Running
  /\ task[t].stage = "write"
  /\ fileData' = WriteAt(fileData, filePos,
                         Bytes(task[t].chunk.from, task[t].chunk.len))
  /\ filePos' = filePos + task[t].chunk.len
  /\ lock' = [lock EXCEPT ![task[t].writer] = <<>>]
  /\ task' = [task EXCEPT ![t].stage = "read",
                          ![t].current_index = @ + task[t].chunk.len]
  /\ UNCHANGED <<configVars, lastRead,
                 pc, num_parts, next_result, body, uploadVars,
                 calls, rangeCalls, progress, fileState>>

\* --------------------------------------------------- S3Transfer.download_file

\* The size taken without a head_object request.
DownloadFileNoHead ==
  /\ pc = "start"
  /\ op = "download"
  /\ pc' = IF size >= config.multipart_threshold THEN "ranged" ELSE "get"
  /\ UNCHANGED <<configVars, lastRead,
                 num_parts, next_result, task, body, uploadVars, calls,
                 rangeCalls, progress, fileVars>>

\* S3Transfer.download_file: head_object returns ContentLength and the size
\* check chooses the path.
DownloadFile ==
  /\ pc = "start"
  /\ op = "download"
  /\ calls' = [calls EXCEPT !.head = @ + 1]
  /\ pc' = IF UseMultipart(size, config) THEN "ranged" ELSE "get"
  /\ UNCHANGED <<configVars, lastRead,
                 num_parts, next_result, task, body, uploadVars,
                 rangeCalls, progress, fileVars>>

\* head_object raises.
HeadObjectRaise ==
  /\ pc = "start"
  /\ op = "download"
  /\ calls' = [calls EXCEPT !.head = @ + 1]
  /\ pc' = "raised"
  /\ UNCHANGED <<configVars, lastRead,
                 num_parts, next_result, task, body, uploadVars,
                 rangeCalls, progress, fileVars>>

\* The number of bytes a read(amount) of a response stream may return: at
\* least one and at most amount while bytes are left, none at its end.
StreamReadLens(stream, amount) ==
  IF stream.spos = stream.send THEN {0}
  ELSE 1..Min(amount, stream.send - stream.spos)

\* The callback given the amount asked for, not the amount read.
StreamCallbackRequested(value_len, amount) == amount

\* StreamReaderProgress.read: the amount given to the callback, len(value)
StreamCallbackAmount(value_len, amount) == value_len

\* S3Transfer._get_object: get_object returns the whole object as a stream
\* and the local file is opened for writing.
GetObjectCall ==
  /\ pc = "get"
  /\ calls' = [calls EXCEPT !.get = @ + 1]
  /\ body' = [spos |-> 0, send |-> size]
  /\ fileState' = "open"
  /\ fileData' = <<>>
  /\ filePos' = 0
  /\ pc' = "get_loop"
  /\ UNCHANGED <<configVars, lastRead,
                 num_parts, next_result, task, uploadVars,
                 rangeCalls, progress, lock>>

\* get_object raises.
GetObjectRaise ==
  /\ pc = "get"
  /\ calls' = [calls EXCEPT !.get = @ + 1]
  /\ pc' = "raised"
  /\ UNCHANGED <<configVars, lastRead,
                 num_parts, next_result, task, body, uploadVars,
                 rangeCalls, progress, fileVars>>

\* One round of the loop of _get_object: StreamReaderProgress.read reports
\* the bytes read to the callback; they are written to the file, or, the
\* stream at its end, the loop ends and the file is closed.
GetObjectRead(n) ==
  /\ pc = "get_loop"
  /\ n \in StreamReadLens(body, get_object_buffer)
  /\ progress' = progress + StreamCallbackAmount(n, get_object_buffer)
  /\ body' = [body EXCEPT !.spos = @ + n]
  /\ IF n = 0
       THEN /\ fileState' = "closed"
            /\ calls' = [calls EXCEPT !.close = @ + 1]
            /\ pc' = "returned"
            /\ UNCHANGED <<fileData, filePos>>
       ELSE /\ fileData' = WriteAt(fileData, filePos, Bytes(body.spos, n))
            /\ filePos' = filePos + n
            /\ UNCHANGED <<fileState, pc, calls>>
  /\ UNCHANGED <<configVars, lastRead,
                 num_parts, next_result, task, uploadVars, rangeCalls, lock>>

\* The read of the stream raises: the with statement closes the file.
GetObjectReadRaise ==
  /\ pc = "get_loop"
  /\ fileState' = "closed"
  /\ calls' = [calls EXCEPT !.close = @ + 1]
  /\ pc' = "raised"
  /\ UNCHANGED <<configVars, lastRead,
                 num_parts, next_result, task, body, uploadVars,
                 rangeCalls, progress, fileData, filePos, lock>>

\* ------------------------------------------ MultipartDownloaded.download_file

\* _download_range: range_param, 'bytes=%s-%s' % (start_range, end_range)
RangeParam(i, part_size, n) ==
  [start |-> i * part_size,
   end |-> IF i = n - 1 THEN OpenEnd ELSE i * part_size + part_size - 1]

DownloadTask ==
  [st |-> "pending", stage |-> "get", current_index |-> 0,
   stream |-> NoStream, chunk |-> [from |-> 0, len |-> 0], writer |-> 0]

\* executor.map(download_partial, range(num_parts)): every task submitted
SubmitDownloads(n) == [t \in DownloadRange(n) |-> DownloadTask]

\* MultipartDownloaded.download_file: num_parts is computed (a
\* multipart_chunksize of 0 raises ZeroDivisionError), the local file is
\* opened for writing and the ranges are given to the executor.
RangedDownload ==
  /\ pc = "ranged"
  /\ IF config.multipart_chunksize = 0
       THEN /\ pc' = "raised"
            /\ UNCHANGED <<num_parts, task, next_result, fileVars>>
       ELSE /\ num_parts' = NumParts(size, config.multipart_chunksize)
            /\ task' = SubmitDownloads(num_parts')
            /\ next_result' = 0
            /\ fileState' = "open"
            /\ fileData' = <<>>
            /\ filePos' = 0
            /\ lock' = lock
            /\ pc' = "collect"
  /\ UNCHANGED <<configVars, lastRead,
                 body, uploadVars, calls, rangeCalls, progress>>

\* self._os.wrap_thread_safe_writer(fileobj) in _download_range: the writer
\* task i writes through. Every call makes a ThreadSafeWriter of its own.
WrapThreadSafeWriter(i) == i

\* A pool thread takes range i off the queue: _download_range calls
\* get_object with its Range, which returns the stream of those bytes, and
\* wraps the file in a ThreadSafeWriter.
RangeGet(t) ==
  /\ op = "download"
  /\ pc \in {"collect", "unwind"}
  /\ NextInQueue(t)
  /\ WorkerFree
  /\ LET r == RangeParam(t, config.multipart_chunksize, num_parts)
         w == WrapThreadSafeWriter(t)
     IN /\ rangeCalls' = rangeCalls \cup {r}
        /\ task' = [task EXCEPT
                      ![t].st = "running",
                      ![t].stage = "read",
                      ![t].current_index = r.start,
                      ![t].stream = [spos |-> RangeFirst(r),
                                     send |-> RangeEnd(r, size)],
                      ![t].writer = w]
        /\ lock' = (w :> <<>>) @@ lock
  /\ UNCHANGED <<configVars, lastRead,
                 pc, num_parts, next_result, body, uploadVars,
                 calls, progress, fileState, fileData, filePos>>

\* The same, get_object raising: the task ends with the exception.
RangeGetRaise(t) ==
  /\ op = "download"
  /\ pc \in {"collect", "unwind"}
  /\ NextInQueue(t)
  /\ WorkerFree
  /\ rangeCalls' =
       rangeCalls \cup {RangeParam(t, config.multipart_chunksize, num_parts)}
  /\ task' = [task EXCEPT ![t].st = "failed"]
  /\ UNCHANGED <<configVars, lastRead,
                 pc, num_parts, next_result, body, uploadVars,
                 calls, progress, fileVars>>

\* One streaming_body.read(buffer_size) of _download_range:
\* StreamReaderProgress.read reports the bytes read to the callback; the
\* chunk goes to pwrite, or, the stream at its end, the task ends.
RangeRead(t, n) ==
  /\ op = "download"
  /\ t \in Running
  /\ task[t].stage = "read"
  /\ n \in StreamReadLens(task[t].stream, buffer_size)
  /\ progress' = progress + StreamCallbackAmount(n, buffer_size)
  /\ task' = [task EXCEPT
                ![t].stream.spos = @ + n,
                ![t].chunk = [from |-> task[t].stream.spos, len |-> n],
                ![t].stage = IF n = 0 THEN "end" ELSE "pwrite",
                ![t].st = IF n = 0 THEN "done" ELSE "running"]
  /\ UNCHANGED <<configVars, lastRead,
                 pc, num_parts, next_result, body, uploadVars,
                 calls, rangeCalls, fileVars>>

\* The read of the stream raises: the task ends with the exception.
RangeReadRaise(t) ==
  /\ op = "download"
  /\ t \in Running
  /\ task[t].stage = "read"
  /\ task' = [task EXCEPT ![t].st = "failed"]
  /\ UNCHANGED <<configVars, lastRead,
                 pc, num_parts, next_result, body, uploadVars,
                 calls, rangeCalls, progress, fileVars>>

\* list(executor.map(...)): the iterator yields the result of a task that
\* ended without an exception.
CollectRange ==
  /\ op = "download"
  /\ pc = "collect"
  /\ next_result \in TaskIds
  /\ task[next_result].st = "done"
  /\ next_result' = next_result + 1
  /\ UNCHANGED <<configVars, lastRead,
                 pc, num_parts, task, body, uploadVars, calls,
                 rangeCalls, progress, fileVars>>

\* Every result collected: the executor is shut down, the with statement
\* closes the file and download_file returns.
RangedDownloadReturn ==
  /\ op = "download"
  /\ pc = "collect"
  /\ next_result = num_parts
  /\ fileState' = "closed"
  /\ calls' = [calls EXCEPT !.close = @ + 1]
  /\ pc' = "returned"
  /\ UNCHANGED <<configVars, lastRead,
                 num_parts, next_result, task, body, uploadVars,
                 rangeCalls, progress, fileData, filePos, lock>>

\* The file closed without waiting for the running tasks.
DownloadUnwindNoWait ==
  /\ op = "download"
  /\ pc = "unwind"
  /\ fileState' = "closed"
  /\ calls' = [calls EXCEPT !.close = @ + 1]
  /\ pc' = "raised"
  /\ UNCHANGED <<configVars, lastRead,
                 num_parts, next_result, task, body, uploadVars,
                 rangeCalls, progress, fileData, filePos, lock>>

\* ThreadPoolExecutor.__exit__: shutdown(wait=True) returns once no task
\* runs; the with statement closes the file and the exception leaves
\* download_file.
DownloadUnwind ==
  /\ op = "download"
  /\ pc = "unwind"
  /\ Running = {}
  /\ fileState' = "closed"
  /\ calls' = [calls EXCEPT !.close = @ + 1]
  /\ pc' = "raised"
  /\ UNCHANGED <<configVars, lastRead,
                 num_parts, next_result, task, body, uploadVars,
                 rangeCalls, progress, fileData, filePos, lock>>

ReadLens == 0..Max(buffer_size, get_object_buffer)

DownloadNext ==
  \/ DownloadFile
  \/ HeadObjectRaise
  \/ GetObjectCall
  \/ GetObjectRaise
  \/ \E n \in ReadLens : GetObjectRead(n)
  \/ GetObjectReadRaise
  \/ RangedDownload
  \/ \E t \in TaskIds : RangeGet(t)
  \/ \E t \in TaskIds : RangeGetRaise(t)
  \/ \E t \in TaskIds, n \in ReadLens : RangeRead(t, n)
  \/ \E t \in TaskIds : RangeReadRaise(t)
  \/ \E t \in TaskIds : op = "download" /\ PwriteSeek(t)
  \/ \E t \in TaskIds : op = "download" /\ PwriteWrite(t)
  \/ CollectRange
  \/ RangedDownloadReturn
  \/ DownloadUnwind

Next == UploadNext \/ DownloadNext

Spec == Init /\ [][Next]_vars

\* ------------------------------------- ThreadSafeWriter, called concurrently

\* The one ThreadSafeWriter the callers share.
TheWriter == 0

\* A caller of pwrite: it writes the bytes [from, to) of its own, piece after
\* piece, through the shared writer.
WriterTask(from, to) ==
  [st |-> "running", stage |-> "read", current_index |-> from,
   stream |-> [spos |-> from, send |-> to],
   chunk |-> [from |-> 0, len |-> 0], writer |-> TheWriter]

\* ThreadSafeWriter.__init__ on an open file, and callers whose offset
\* ranges are disjoint: [0, size) cut every multipart_chunksize bytes.
InitWriter ==
  /\ op = "pwrite"
  /\ size \in 1..MaxSize
  /\ \E c \in 1..MaxChunk :
       /\ config = TransferConfig(0, NumParts(size, c), c)
       /\ num_parts = NumParts(size, c)
       /\ task = [t \in DownloadRange(NumParts(size, c)) |->
                    WriterTask(t * c, Min(t * c + c, size))]
  /\ pc = "writers"
  /\ upload_id = None
  /\ parts = <<>>
  /\ next_result = 0
  /\ body = NoStream
  /\ session = "none"
  /\ storeEtag = <<>>
  /\ calls = NoCalls
  /\ partCalls = {}
  /\ rangeCalls = {}
  /\ completeArg = <<>>
  /\ outOfOrder = FALSE
  /\ progress = 0
  /\ fileState = "open"
  /\ fileData = <<>>
  /\ filePos = 0
  /\ lock = (TheWriter :> <<>>)
  /\ lastRead = NoRead

\* A caller calls pwrite with its next n bytes and the offset they belong
\* at, or has no bytes left and ends.
WriterCall(t, n) ==
  /\ op = "pwrite"
  /\ t \in Running
  /\ task[t].stage = "read"
  /\ n \in StreamReadLens(task[t].stream, buffer_size)
  /\ task' = [task EXCEPT
                ![t].stream.spos = @ + n,
                ![t].chunk = [from |-> task[t].stream.spos, len |-> n],
                ![t].stage = IF n = 0 THEN "end" ELSE "pwrite",
                ![t].st = IF n = 0 THEN "done" ELSE "running"]
  /\ UNCHANGED <<configVars, lastRead,
                 pc, num_parts, next_result, body, uploadVars,
                 calls, rangeCalls, progress, fileVars>>

NextWriter ==
  \/ \E t \in TaskIds, n \in ReadLens : WriterCall(t, n)
  \/ \E t \in TaskIds : PwriteSeek(t)
  \/ \E t \in TaskIds : PwriteWrite(t)

SpecWriter == InitWriter /\ [][NextWriter]_vars

\* ------------------------------------------- the readers on their own

\* The seek offsets a caller gives a chunk view: up to one past the longest
\* file.
SeekOffsets == 0..(MaxSize + 1)

\* ReadFileChunk.from_filename on a file of size bytes, or the stream of a
\* response of size bytes wrapped by StreamReaderProgress, with a callback.
InitReader ==
  /\ op \in {"chunk", "stream"}
  /\ size \in Sizes
  /\ config = TransferConfig(0, 1, 1)
  /\ pc = "reader"
  /\ IF op = "chunk"
       THEN \E start_byte \in 0..size, chunk_size \in 1..MaxChunk :
              body = NewChunk(start_byte, chunk_size, size)
       ELSE body = [spos |-> 0, send |-> size]
  /\ num_parts = 0
  /\ upload_id = None
  /\ parts = <<>>
  /\ next_result = 0
  /\ task = <<>>
  /\ session = "none"
  /\ storeEtag = <<>>
  /\ calls = NoCalls
  /\ partCalls = {}
  /\ rangeCalls = {}
  /\ completeArg = <<>>
  /\ outOfOrder = FALSE
  /\ progress = 0
  /\ fileState = "unopened"
  /\ fileData = <<>>
  /\ filePos = 0
  /\ lock = <<>>
  /\ lastRead = NoRead

\* ReadFileChunk.read(n), amount = <<n>>, or read(), amount = <<>>: the bytes
\* come from the underlying file at its cursor, and the callback is given
\* len(data).
ChunkRead(amount) ==
  /\ op = "chunk"
  /\ progress + ChunkCallbackAmount(body, amount) <= MaxProgress
  /\ lastRead' = [done |-> TRUE,
                  from |-> body.fpos,
                  len |-> ChunkReadLen(body, amount),
                  amount |-> IF amount = <<>>
                               THEN Max(body.size - body.amount_read, 0)
                               ELSE amount[1],
                  left |-> Max(body.size - body.amount_read, 0),
                  called |-> TRUE,
                  arg |-> ChunkCallbackAmount(body, amount)]
  /\ progress' = progress + ChunkCallbackAmount(body, amount)
  /\ body' = ChunkAfterRead(body, amount)
  /\ UNCHANGED <<configVars, pc, num_parts, next_result, task, uploadVars,
                 calls, rangeCalls, fileVars>>

\* ReadFileChunk.seek(where)
ChunkSeek(where) ==
  /\ op = "chunk"
  /\ body' = ChunkAfterSeek(body, where)
  /\ UNCHANGED <<configVars, lastRead, pc, num_parts, next_result, task,
                 uploadVars, calls, rangeCalls, progress, fileVars>>

\* StreamReaderProgress.read(amount): the stream returns n bytes and the
\* callback is given len(value).
StreamRead(amount, n) ==
  /\ op = "stream"
  /\ n \in StreamReadLens(body, amount)
  /\ lastRead' = [done |-> TRUE,
                  from |-> body.spos,
                  len |-> n,
                  amount |-> amount,
                  left |-> body.send - body.spos,
                  called |-> TRUE,
                  arg |-> StreamCallbackAmount(n, amount)]
  /\ progress' = progress + StreamCallbackAmount(n, amount)
  /\ body' = [body EXCEPT !.spos = @ + n]
  /\ UNCHANGED <<configVars, pc, num_parts, next_result, task, uploadVars,
                 calls, rangeCalls, fileVars>>

NextReader ==
  \/ \E amount \in ReadAmounts : ChunkRead(<<amount>>)
  \/ ChunkRead(<<>>)
  \/ \E where \in SeekOffsets : ChunkSeek(where)
  \/ \E amount \in ReadAmounts, n \in ReadLens : StreamRead(amount, n)

SpecReader == InitReader /\ [][NextReader]_vars

\* ------------------------------------------------------------ the claims

Threshold == config.multipart_threshold

PartSize == config.multipart_chunksize

Ended == pc \in {"returned", "raised"}

\* C1: the size check chooses the path. With size < multipart_threshold an
\* upload makes one put_object call and no create_multipart_upload or
\* upload_part call, and a download makes one get_object call without a
\* Range and none with one; with size >= multipart_threshold, the two equal
\* included, an upload calls create_multipart_upload and never put_object,
\* and a download makes no get_object call without a Range.
C1_StrategySelection ==
  /\ (op = "upload" /\ size < Threshold) =>
       /\ calls.create = 0
       /\ partCalls = {}
       /\ calls.put <= 1
       /\ pc \in {"put_call", "returned", "raised"} => calls.put = 1
  /\ (op = "upload" /\ size >= Threshold) =>
       /\ calls.put = 0
       /\ calls.create <= 1
       /\ pc \notin {"start", "create"} => calls.create = 1
  /\ (op = "download" /\ size < Threshold) =>
       /\ rangeCalls = {}
       /\ calls.get <= 1
       /\ pc \in {"get_loop", "returned"} => calls.get = 1
  /\ (op = "download" /\ size >= Threshold) =>
       /\ calls.get = 0
       /\ (pc = "returned" /\ size >= 1 /\ PartSize >= 1) => rangeCalls # {}

\* An upload of a file of exactly multipart_threshold bytes has gone the
\* multipart way to its end.
C1_Witness ==
  /\ op = "upload"
  /\ size = Threshold
  /\ size > 0
  /\ session = "completed"
  /\ pc = "returned"

\* C2: whatever the order the part uploads finish in, the Parts given to
\* complete_multipart_upload are strictly ascending by PartNumber, hold each
\* part number 1..num_parts once, and pair each with the ETag the store
\* returned for that part number.
C2_CompletionPartsOrdered ==
  \A i \in DOMAIN completeArg :
    LET ps == completeArg[i].Parts
    IN /\ {ps[k].PartNumber : k \in DOMAIN ps} = 1..num_parts
       /\ Len(ps) = Cardinality(1..num_parts)
       /\ \A k \in 1..(Len(ps) - 1) : ps[k].PartNumber < ps[k + 1].PartNumber
       /\ \A k \in DOMAIN ps :
            /\ ps[k].PartNumber \in DOMAIN storeEtag
            /\ ps[k].ETag = storeEtag[ps[k].PartNumber]

\* complete_multipart_upload has been called with two parts or more, one of
\* which finished before a part of a smaller number.
C2_Witness ==
  /\ completeArg # <<>>
  /\ Len(completeArg[1].Parts) >= 2
  /\ outOfOrder

RECURSIVE SumLen(_)
\* The sum of the lengths of a set of upload_part calls.
SumLen(cs) ==
  IF cs = {} THEN 0
  ELSE LET c == CHOOSE x \in cs : TRUE
       IN c.len + SumLen(cs \ {c})

\* C3: for a file of size >= 1 and a multipart_chunksize P >= 1, num_parts
\* is ceil(size / P); part n starts at P * (n - 1) and is min(P, size - P *
\* (n - 1)) bytes long, which is at least 1, and only the last part can be
\* shorter than P; once every part is uploaded there has been one upload of
\* each part 1..num_parts and the lengths sum to size.
C3_UploadPartitioning ==
  (op = "upload" /\ size >= 1 /\ PartSize >= 1) =>
    /\ session # "none" =>
         /\ PartSize * (num_parts - 1) < size
         /\ size <= PartSize * num_parts
    /\ \A c \in partCalls :
         /\ c.PartNumber \in 1..num_parts
         /\ c.start = PartSize * (c.PartNumber - 1)
         /\ c.len = Min(PartSize, size - PartSize * (c.PartNumber - 1))
         /\ c.len >= 1
         /\ c.len < PartSize => c.PartNumber = num_parts
    /\ calls.complete >= 1 =>
         /\ {c.PartNumber : c \in partCalls} = 1..num_parts
         /\ Cardinality(partCalls) = num_parts
         /\ SumLen(partCalls) = size

\* Every part of an upload of two parts or more is uploaded, the last of
\* them shorter than multipart_chunksize.
C3_Witness ==
  /\ op = "upload"
  /\ calls.complete = 1
  /\ num_parts >= 2
  /\ \E c \in partCalls : c.PartNumber = num_parts /\ c.len < PartSize

\* The tasks between the seek and the write of a pwrite.
InPwrite == {t \in TaskIds : task[t].st = "running" /\ task[t].stage = "write"}

\* No seek or write of another task has come between the seek of a pwrite
\* and its write: the cursor is where the task put it.
PwriteUndisturbed ==
  /\ Cardinality(InPwrite) <= 1
  /\ \A t \in InPwrite : filePos = task[t].current_index

\* Every byte of the file that has been written is the byte of that offset.
BytesInPlace == \A k \in DOMAIN fileData : fileData[k] \in {0, k}

\* C4: for an object of length L >= 1 and a multipart_chunksize P >= 1 a
\* ranged download asks for ceil(L / P) ranges, range i the closed [i * P,
\* i * P + P - 1] but the last, which starts at (num_parts - 1) * P and is
\* open-ended; and the offsets written to the local file cover [0, L) with
\* no overlap and no gap.
C4_DownloadPartitioning ==
  (op = "download" /\ size >= Threshold /\ size >= 1 /\ PartSize >= 1) =>
    /\ pc \in {"collect", "unwind", "returned"} =>
         /\ PartSize * (num_parts - 1) < size
         /\ size <= PartSize * num_parts
    /\ \A r \in rangeCalls :
         \E i \in 0..(num_parts - 1) :
           /\ r.start = i * PartSize
           /\ i < num_parts - 1 => r.end = i * PartSize + PartSize - 1
           /\ i = num_parts - 1 => r.end = OpenEnd
    /\ pc = "returned" =>
         /\ Cardinality(rangeCalls) = num_parts
         /\ fileData = Bytes(0, size)

\* C5: pwrite calls on one ThreadSafeWriter are atomic: between the seek of
\* a call and its write no other call seeks or writes, and the file is, byte
\* for byte, the one the same writes make one after the other: every byte
\* written is at its offset and, the callers done, the file is the bytes
\* [0, size).
C5_PwriteAtomic ==
  /\ PwriteUndisturbed
  /\ BytesInPlace
  /\ (\A t \in TaskIds : task[t].st = "done") => fileData = Bytes(0, size)

\* Two callers or more have written all their bytes, one of them waiting
\* for the lock at some time (the file was written out of offset order).
C5_Witness ==
  /\ op = "pwrite"
  /\ num_parts >= 2
  /\ \A t \in TaskIds : task[t].st = "done"
  /\ filePos < size

\* C6: in a ranged download the range workers share the output file handle
\* through one ThreadSafeWriter: no worker's seek comes between another
\* worker's seek and its write, every chunk lands at its own offset, and the
\* finished file is the object's bytes [0, L).
C6_RangedDownloadWrites ==
  (op = "download" /\ PartSize >= 1) =>
    /\ PwriteUndisturbed
    /\ BytesInPlace
    /\ (pc = "returned" /\ size >= Threshold) => fileData = Bytes(0, size)

FailedParts == {t \in TaskIds : op = "upload" /\ task[t].st = "failed"}

\* C8: once an upload_part call has failed, complete_multipart_upload is
\* not called: the session is never completed.
C8_NoCompletionAfterFailure ==
  FailedParts # {} =>
    /\ calls.complete = 0
    /\ completeArg = <<>>
    /\ session # "completed"

\* upload_file has raised after one part failed and another succeeded.
C8_Witness ==
  /\ pc = "raised"
  /\ FailedParts # {}
  /\ \E t \in TaskIds : task[t].st = "done"
  /\ next_result > 1

\* C9: a multipart session that was opened is, when upload_file ends,
\* either completed or aborted by an abort call to the store.
C9_SessionConsumed ==
  (op = "upload" /\ PartSize >= 1 /\ Ended /\ session # "none") =>
    \/ session = "completed" /\ calls.abort = 0
    \/ session = "open" /\ calls.abort = 1

\* C10: create_multipart_upload is called once and has returned its upload
\* id before any upload_part call; every upload_part call carries that id;
\* complete_multipart_upload is called at most once, with that id, and only
\* after the upload_part calls of all the parts 1..num_parts have returned.
C10_LifecycleOrder ==
  op = "upload" =>
    /\ calls.create <= 1
    /\ calls.complete <= 1
    /\ Len(completeArg) = calls.complete
    /\ (pc \in {"collect", "unwind"} \/ partCalls # {} \/ calls.complete >= 1)
         => (calls.create = 1 /\ upload_id \in UploadIds)
    /\ \A c \in partCalls : c.UploadId = upload_id
    /\ \A i \in DOMAIN completeArg : completeArg[i].UploadId = upload_id
    /\ calls.complete >= 1 =>
         \A n \in 1..num_parts :
           /\ n \in TaskIds
           /\ task[n].st = "done"
           /\ \E c \in partCalls : c.PartNumber = n

\* A session of two parts or more has been completed.
C10_Witness ==
  /\ session = "completed"
  /\ num_parts >= 2
  /\ Cardinality(partCalls) = num_parts


FailedTasks == {t \in TaskIds : task[t].st = "failed"}

\* C11: once a part upload or a range fetch of a multipart transfer has
\* failed, the call does not return: it ends by raising, whichever part or
\* range failed and however many others succeeded.
C11_FailurePropagates ==
  (op \in {"upload", "download"} /\ FailedTasks # {}) => pc # "returned"

\* A ranged download has raised, one range failed and another written.
C11_Witness ==
  /\ op = "download"
  /\ pc = "raised"
  /\ FailedTasks # {}
  /\ \E t \in TaskIds : task[t].st = "done"

\* C12: a transfer that takes the multipart path with a zero-length file or
\* object, or with a multipart_chunksize that is not positive, fails without
\* a create_multipart_upload, upload_part, complete_multipart_upload or
\* get_object call.
C12_PartitionErrorsRejected ==
  (/\ op \in {"upload", "download"}
   /\ size >= Threshold
   /\ (size = 0 \/ PartSize <= 0)) =>
    /\ calls.create = 0
    /\ partCalls = {}
    /\ calls.complete = 0
    /\ calls.get = 0
    /\ rangeCalls = {}
    /\ pc # "returned"

\* C14: download_file makes one head_object request, which has returned
\* before any get_object request and before the local file is opened; when
\* it fails there is no get_object call, the file is not touched and
\* nothing more happens.
C14_HeadObjectFirst ==
  /\ [](op = "download" =>
          /\ calls.head <= 1
          /\ pc # "start" => calls.head = 1
          /\ calls.head = 0 =>
               (calls.get = 0 /\ rangeCalls = {} /\ fileState = "unopened"))
  /\ [][(op = "download" /\ pc = "start" /\ pc' = "raised") =>
          (calls'.get = 0 /\ rangeCalls' = {} /\ fileState' = "unopened")]_vars
  /\ [][op = "download" => pc \notin {"returned", "raised"}]_vars

\* The head_object request of a download below the threshold has failed.
C14_Witness ==
  /\ op = "download"
  /\ size < Threshold
  /\ pc = "raised"
  /\ calls.head = 1
  /\ calls.get = 0
  /\ fileState = "unopened"

\* C16: at no time are more than max_concurrency part uploads or range
\* fetches started and not yet finished.
C16_BoundedPool ==
  op \in {"upload", "download"} =>
    Cardinality(Running) <= config.max_concurrency

\* The pool is full and a task waits in its queue.
C16_Witness ==
  /\ op \in {"upload", "download"}
  /\ config.max_concurrency >= 2
  /\ Cardinality(Running) = config.max_concurrency
  /\ Pending # {}

\* C17: once upload_file or download_file of the coordinator has returned
\* or raised, no task of the transfer runs or is still to run.
C17_JoinBarrier ==
  (op \in {"upload", "download"} /\ Ended) =>
    /\ Running = {}
    /\ Pending = {}

\* The call has raised for a failed task after a task of a greater number,
\* running at the time, came to its end.
C17_Witness ==
  /\ pc = "raised"
  /\ \E t \in FailedTasks :
       \E u \in TaskIds : u > t /\ task[u].st \in {"done", "failed"}

\* C19: the output file of a download is closed once, when the call ends
\* and after every range worker has finished: no worker runs, and so none
\* seeks or writes, once it is closed.
C19_FileClosedAfterWorkers ==
  op = "download" =>
    /\ calls.close <= 1
    /\ fileState = "closed" <=> calls.close = 1
    /\ fileState = "closed" => (Running = {} /\ Pending = {})
    /\ Running # {} => fileState = "open"
    /\ (Ended /\ fileState # "unopened") => fileState = "closed"

\* A ranged download has raised and closed the file after a range failed
\* and another wrote its bytes.
C19_Witness ==
  /\ op = "download"
  /\ pc = "raised"
  /\ fileState = "closed"
  /\ FailedTasks # {}
  /\ fileData # <<>>

\* C20: the chunk view of a part is open while its upload_part call runs and
\* closed when the call has ended, with a result or an exception, and so is
\* the chunk view of the whole file of put_object: none is open once the
\* upload has ended.
C20_ChunkViewsClosed ==
  op = "upload" =>
    /\ \A t \in TaskIds : task[t].chunk.open <=> task[t].st = "running"
    /\ body.open <=> pc = "put_call"
    /\ Ended => (~body.open /\ \A t \in TaskIds : ~task[t].chunk.open)

\* A multipart upload has raised, one part failed and another uploaded.
C20_Witness ==
  /\ op = "upload"
  /\ pc = "raised"
  /\ FailedTasks # {}
  /\ \E t \in TaskIds : task[t].st = "done"


\* C13: every read of a chunk view returns at most min(remaining in the
\* window, amount) bytes, all of them from inside the window
\* [start_byte, start_byte + size), and none when nothing remains, after
\* any reads and seeks and with an underlying file that is longer.
C13_WindowBound ==
  (op = "chunk" /\ lastRead.done) =>
    /\ lastRead.len <= Min(lastRead.left, lastRead.amount)
    /\ lastRead.len > 0 =>
         /\ lastRead.from >= body.start_byte
         /\ lastRead.from + lastRead.len <= body.start_byte + body.size
    /\ lastRead.left = 0 => lastRead.len = 0

\* C15: a read of a chunk view or of a response stream gives the callback
\* the number of bytes it returns when that is positive, and does not call
\* it when it returns nothing.
C15_CallbackPerRead ==
  (op \in {"chunk", "stream"} /\ lastRead.done) =>
    /\ lastRead.called <=> lastRead.len > 0
    /\ lastRead.called => lastRead.arg = lastRead.len

\* C18: after any reads and seeks of a chunk view, tell() is between 0 and
\* len(chunk) and the underlying file's cursor is at start_byte + tell().
C18_CursorInvariant ==
  op = "chunk" =>
    /\ 0 <= body.amount_read
    /\ body.amount_read <= body.size
    /\ body.fpos = body.start_byte + body.amount_read

====
